---------------------------- MODULE Spec2Model ----------------------------
(***************************************************************************)
(* Model of fileReorg.py (SmartFileOrganizer): the classifier, the namer,  *)
(* conflict resolution, the organize pass and the re-analysis pass.        *)
(*                                                                         *)
(* Python str values are TLA+ strings; a character is a string of length   *)
(* one, taken with Head or SubSeq(s, i, i).  Python None for an optional   *)
(* string (mime type, photo date) is the empty string where the code only  *)
(* tests truthiness; a dict is a function, a missing key a missing field.  *)
(***************************************************************************)
EXTENDS Integers, Sequences, FiniteSets, TLC

(***************************************************************************)
(* Characters and the str / re / pathlib primitives the code uses.         *)
(***************************************************************************)
AsciiDigits == "0123456789"

AsciiUpperSet == {
    "A", "B", "C", "D", "E", "F", "G", "H", "I", "J", "K", "L", "M",
    "N", "O", "P", "Q", "R", "S", "T", "U", "V", "W", "X", "Y", "Z"
}

AsciiLowerSet == {
    "a", "b", "c", "d", "e", "f", "g", "h", "i", "j", "k", "l", "m",
    "n", "o", "p", "q", "r", "s", "t", "u", "v", "w", "x", "y", "z"
}

AsciiDigitSet == {
    "0", "1", "2", "3", "4", "5", "6", "7", "8", "9"
}

\* Non-ASCII alphanumerics of the modelled alphabet: Python 3 str patterns
\* are Unicode-aware, so \w matches them.
UnicodeAlnumSet == {"É", "é"}

WhitespaceSet == {" ", "\t", "\n"}

\* str.lower(), character by character
LowerMap ==
    [c \in AsciiUpperSet \cup {"É"} |->
        CASE c = "É" -> "é"
          [] c = "A" -> "a"
          [] c = "B" -> "b"
          [] c = "C" -> "c"
          [] c = "D" -> "d"
          [] c = "E" -> "e"
          [] c = "F" -> "f"
          [] c = "G" -> "g"
          [] c = "H" -> "h"
          [] c = "I" -> "i"
          [] c = "J" -> "j"
          [] c = "K" -> "k"
          [] c = "L" -> "l"
          [] c = "M" -> "m"
          [] c = "N" -> "n"
          [] c = "O" -> "o"
          [] c = "P" -> "p"
          [] c = "Q" -> "q"
          [] c = "R" -> "r"
          [] c = "S" -> "s"
          [] c = "T" -> "t"
          [] c = "U" -> "u"
          [] c = "V" -> "v"
          [] c = "W" -> "w"
          [] c = "X" -> "x"
          [] c = "Y" -> "y"
          [] c = "Z" -> "z"]

Min(a, b) == IF a < b THEN a ELSE b

CharAt(s, i) == SubSeq(s, i, i)

IsAsciiLetter(c) == c \in AsciiUpperSet \/ c \in AsciiLowerSet

\* [A-Za-z0-9_-]
IsAsciiNameChar(c) == IsAsciiLetter(c) \/ c \in AsciiDigitSet \/ c = "_" \/ c = "-"

\* \w of the re module on a str pattern (no re.ASCII flag)
IsWordChar(c) ==
    \/ IsAsciiLetter(c)
    \/ c \in AsciiDigitSet
    \/ c = "_"
    \/ c \in UnicodeAlnumSet

LowerChar(c) == IF c \in DOMAIN LowerMap THEN LowerMap[c] ELSE c

RECURSIVE Lower(_)
Lower(s) == IF s = "" THEN "" ELSE LowerChar(Head(s)) \o Lower(Tail(s))

\* re.sub(r'[^\w\-_]', '_', s)
RECURSIVE ReSubNonWord(_)
ReSubNonWord(s) ==
    IF s = "" THEN ""
    ELSE (IF IsWordChar(Head(s)) \/ Head(s) = "-" THEN Head(s) ELSE "_")
         \o ReSubNonWord(Tail(s))

RECURSIVE LStrip(_)
LStrip(s) == IF s # "" /\ Head(s) \in WhitespaceSet THEN LStrip(Tail(s)) ELSE s

RECURSIVE RStrip(_)
RStrip(s) ==
    IF s # "" /\ CharAt(s, Len(s)) \in WhitespaceSet
    THEN RStrip(SubSeq(s, 1, Len(s) - 1))
    ELSE s

\* str.strip()
Strip(s) == RStrip(LStrip(s))

StartsWith(s, p) == Len(s) >= Len(p) /\ SubSeq(s, 1, Len(p)) = p

\* sub in s
Contains(s, sub) ==
    \E i \in 1..(Len(s) - Len(sub) + 1) : SubSeq(s, i, i + Len(sub) - 1) = sub

\* Mutant of Replace: only the first occurrence is replaced
Replace_FirstOnly(s, old, new) ==
    IF \E i \in 1..Len(s) : StartsWith(SubSeq(s, i, Len(s)), old)
    THEN LET i == CHOOSE k \in 1..Len(s) :
                     /\ StartsWith(SubSeq(s, k, Len(s)), old)
                     /\ \A j \in 1..(k - 1) : ~StartsWith(SubSeq(s, j, Len(s)), old)
         IN  SubSeq(s, 1, i - 1) \o new \o SubSeq(s, i + Len(old), Len(s))
    ELSE s

\* s.replace(old, new), old non-empty: leftmost non-overlapping occurrences
RECURSIVE Replace(_, _, _)
Replace(s, old, new) ==
    IF s = "" THEN ""
    ELSE IF StartsWith(s, old)
    THEN new \o Replace(SubSeq(s, Len(old) + 1, Len(s)), old, new)
    ELSE Head(s) \o Replace(Tail(s), old, new)

\* s[:n]
Prefix(s, n) == SubSeq(s, 1, Min(n, Len(s)))

\* str(n) / f"{n}" for n >= 0
RECURSIVE IntToStr(_)
IntToStr(n) ==
    IF n < 10 THEN CharAt(AsciiDigits, n + 1)
    ELSE IntToStr(n \div 10) \o CharAt(AsciiDigits, (n % 10) + 1)

\* str.rfind('.') + 1 (0 when absent)
RFindDot(s) ==
    LET I == {i \in 1..Len(s) : CharAt(s, i) = "."}
    IN  IF I = {} THEN 0 ELSE CHOOSE i \in I : \A j \in I : j <= i

\* pathlib PurePath.suffix of a final path component
Suffix(name) ==
    LET i == RFindDot(name)
    IN  IF 1 < i /\ i < Len(name) THEN SubSeq(name, i, Len(name)) ELSE ""

\* pathlib PurePath.stem
Stem(name) ==
    LET i == RFindDot(name)
    IN  IF 1 < i /\ i < Len(name) THEN SubSeq(name, 1, i - 1) ELSE name

\* The length of the longest prefix of s whose characters are all \w
\* characters (word = TRUE) or all other characters (word = FALSE)
RunLength(s, word) ==
    CHOOSE n \in 0..Len(s) :
        /\ \A k \in 1..n : IsWordChar(CharAt(s, k)) = word
        /\ n = Len(s) \/ IsWordChar(CharAt(s, n + 1)) # word

\* The maximal runs of \w characters of s, in order
RECURSIVE WordRuns(_)
WordRuns(s) ==
    IF s = "" THEN <<>>
    ELSE IF RunLength(s, TRUE) = 0
    THEN WordRuns(SubSeq(s, RunLength(s, FALSE) + 1, Len(s)))
    ELSE <<SubSeq(s, 1, RunLength(s, TRUE))>>
         \o WordRuns(SubSeq(s, RunLength(s, TRUE) + 1, Len(s)))

AllAsciiLetters(w) == \A i \in 1..Len(w) : IsAsciiLetter(CharAt(w, i))

\* Mutant of FindWords: words of any length count
FindWords_AnyLength(s) ==
    SelectSeq(WordRuns(s), LAMBDA w : AllAsciiLetters(w))

\* re.findall(r'\b[A-Za-z]{4,}\b', s): \b is a \w/\W boundary, so a match is a
\* maximal \w run made of ASCII letters only, at least 4 long
FindWords(s) ==
    SelectSeq(WordRuns(s), LAMBDA w : Len(w) >= 4 /\ AllAsciiLetters(w))

\* '_'.join(words)
RECURSIVE JoinUnderscore(_)
JoinUnderscore(words) ==
    IF words = <<>> THEN ""
    ELSE IF Len(words) = 1 THEN words[1]
    ELSE words[1] \o "_" \o JoinUnderscore(Tail(words))

(***************************************************************************)
(* Classifier: SmartFileOrganizer.get_file_type                            *)
(***************************************************************************)
Range(seq) == {seq[i] : i \in 1..Len(seq)}

\* self.file_categories, in insertion order
file_categories == <<
    [category |-> "Images",
     extensions |-> <<".jpg", ".jpeg", ".png", ".gif", ".bmp", ".tiff", ".svg", ".webp", ".ico">>],
    [category |-> "Documents",
     extensions |-> <<".pdf", ".doc", ".docx", ".txt", ".rtf", ".odt", ".pages">>],
    [category |-> "Spreadsheets",
     extensions |-> <<".xls", ".xlsx", ".csv", ".numbers", ".ods">>],
    [category |-> "Presentations",
     extensions |-> <<".ppt", ".pptx", ".key", ".odp">>],
    [category |-> "Audio",
     extensions |-> <<".mp3", ".wav", ".aac", ".flac", ".ogg", ".m4a">>],
    [category |-> "Video",
     extensions |-> <<".mp4", ".avi", ".mov", ".mkv", ".wmv", ".flv", ".webm", ".m4v">>],
    [category |-> "Archives",
     extensions |-> <<".zip", ".rar", ".7z", ".tar", ".gz", ".dmg", ".pkg">>],
    [category |-> "Code",
     extensions |-> <<".py", ".js", ".html", ".css", ".java", ".cpp", ".c", ".php", ".rb", ".go", ".swift">>],
    [category |-> "Data",
     extensions |-> <<".json", ".xml", ".yaml", ".yml", ".sql", ".db", ".sqlite">>]
>>

\* self.system_files
system_files == {".DS_Store", ".localized", "Thumbs.db", ".Trashes", ".fseventsd"}

\* mime_type or "Unknown"
MimeOrUnknown(mime_type) == IF mime_type = "" THEN "Unknown" ELSE mime_type

\* The first category of the table, in iteration order, that lists ext;
\* "Other" when none does.
CategoryOfExt(ext) ==
    LET hits == {i \in 1..Len(file_categories) : ext \in Range(file_categories[i].extensions)}
    IN  IF hits = {} THEN "Other"
        ELSE file_categories[CHOOSE i \in hits : \A j \in hits : i <= j].category

\* Mutant of get_file_type: the extension is compared as written
get_file_type_CaseSensitive(is_file, name, mime_type) ==
    IF ~is_file THEN [mime |-> "Unknown", category |-> "Other"]
    ELSE [mime |-> MimeOrUnknown(mime_type), category |-> CategoryOfExt(Suffix(name))]

\* get_file_type(file_path): is_file is file_path.is_file(), name the final
\* component, mime_type what magic / mimetypes report ("" for None).
get_file_type(is_file, name, mime_type) ==
    IF ~is_file THEN [mime |-> "Unknown", category |-> "Other"]
    ELSE [mime |-> MimeOrUnknown(mime_type), category |-> CategoryOfExt(Lower(Suffix(name)))]

(***************************************************************************)
(* Namer: analyze_content_with_ai and generate_smart_filename.  The        *)
(* collaborator's answer is an outcome record: [kind |-> "reply", text]    *)
(* for message.content, [kind |-> "error", text] for str(e) of the raised  *)
(* exception.                                                              *)
(***************************************************************************)
\* Mutant of IsCredentialError: the status code is not looked for
IsCredentialError_KeyOnly(text) == Contains(Lower(text), "invalid_api_key")

\* except-branch test that disables the client
IsCredentialError(text) ==
    LET error_msg == Lower(text)
    IN  Contains(error_msg, "invalid_api_key") \/ Contains(error_msg, "401")

\* Mutant of analyze_content_with_ai: every failed call disables the client
analyze_content_with_ai_AnyErrorDisables(ai_client, outcome) ==
    IF ~ai_client
    THEN [suggestion |-> "", ai_client |-> FALSE, called |-> FALSE]
    ELSE IF outcome.kind = "reply"
    THEN [suggestion |-> ReSubNonWord(Strip(outcome.text)),
          ai_client |-> TRUE, called |-> TRUE]
    ELSE [suggestion |-> "", ai_client |-> FALSE, called |-> TRUE]

\* analyze_content_with_ai: the suggestion returned, the value of
\* self.ai_client afterwards (TRUE: a client object, FALSE: None) and
\* whether the collaborator was called.
analyze_content_with_ai(ai_client, outcome) ==
    IF ~ai_client
    THEN [suggestion |-> "", ai_client |-> FALSE, called |-> FALSE]
    ELSE IF outcome.kind = "reply"
    THEN [suggestion |-> ReSubNonWord(Strip(outcome.text)),
          ai_client |-> TRUE, called |-> TRUE]
    ELSE [suggestion |-> "",
          ai_client |-> ~IsCredentialError(outcome.text),
          called |-> TRUE]

DocumentWordExts == {".txt", ".md", ".pdf", ".doc", ".docx"}
CodeStemExts == {".py", ".js", ".html", ".css", ".java", ".cpp"}
ContentWindow == 200
MinSuggestionLen == 3

\* The part of generate_smart_filename after the AI attempt
FallbackName(name, metadata, content) ==
    LET words == FindWords(Prefix(content, ContentWindow))
    IN  IF "photo_date" \in DOMAIN metadata
        THEN "photo_" \o Replace(Replace(metadata.photo_date, ":", ""), " ", "_")
        ELSE IF content # "" /\ Lower(Suffix(name)) \in DocumentWordExts /\ Len(words) >= 2
        THEN Lower(JoinUnderscore(SubSeq(words, 1, Min(3, Len(words)))))
        ELSE IF Lower(Suffix(name)) \in CodeStemExts
        THEN ReSubNonWord(Stem(name))
        ELSE ReSubNonWord(Stem(name))

\* Mutant of generate_smart_filename: the metadata rules come before the
\* AI attempt when a photo date is there
generate_smart_filename_PhotoFirst(name, metadata, content, ai_client, outcome) ==
    IF content # "" /\ ai_client /\ "photo_date" \notin DOMAIN metadata
    THEN LET r == analyze_content_with_ai(ai_client, outcome)
         IN  IF r.suggestion # "" /\ Len(r.suggestion) > MinSuggestionLen
             THEN [new_name |-> r.suggestion, ai_client |-> r.ai_client, called |-> r.called]
             ELSE [new_name |-> FallbackName(name, metadata, content),
                   ai_client |-> r.ai_client, called |-> r.called]
    ELSE [new_name |-> FallbackName(name, metadata, content),
          ai_client |-> ai_client,
          called |-> IF content # "" /\ ai_client
                     THEN analyze_content_with_ai(ai_client, outcome).called ELSE FALSE]

\* generate_smart_filename(file_path, metadata, content): the new base name,
\* self.ai_client afterwards and whether the collaborator was called.
generate_smart_filename(name, metadata, content, ai_client, outcome) ==
    IF content # "" /\ ai_client
    THEN LET r == analyze_content_with_ai(ai_client, outcome)
         IN  IF r.suggestion # "" /\ Len(r.suggestion) > MinSuggestionLen
             THEN [new_name |-> r.suggestion, ai_client |-> r.ai_client, called |-> r.called]
             ELSE [new_name |-> FallbackName(name, metadata, content),
                   ai_client |-> r.ai_client, called |-> r.called]
    ELSE [new_name |-> FallbackName(name, metadata, content),
          ai_client |-> ai_client, called |-> FALSE]

(***************************************************************************)
(* The filesystem under one target folder (the root).  An entry is         *)
(* [dir, name, kind, body]: dir is "" for a direct child of the root and   *)
(* the subfolder's name for a child of that subfolder; kind is "file" (a   *)
(* regular file), "dir", "symlink" (a symbolic link to a regular file      *)
(* outside the root) or "dangling" (a symbolic link whose target is        *)
(* missing); body indexes Bodies, what the file holds.                     *)
(***************************************************************************)
\* What extraction finds in a file: content is the text read_file_content
\* can read, exif the EXIF DateTime values Pillow yields (<<>>: none), mime
\* what magic / mimetypes report ("" for None).
Bodies == <<
    [content |-> "", exif |-> <<>>, mime |-> ""],
    [content |-> "some text here", exif |-> <<>>, mime |-> "text/plain"],
    [content |-> "", exif |-> <<"2024:07:15 14:30:22">>, mime |-> "image/jpeg"],
    [content |-> "x=1", exif |-> <<>>, mime |-> "text/plain"],
    [content |-> "more words", exif |-> <<>>, mime |-> "text/plain"]
>>

IsFile(e) == e.kind \in {"file", "symlink"}       \* Path.is_file()
IsDir(e) == e.kind = "dir"                        \* Path.is_dir()
IsSymlink(e) == e.kind \in {"symlink", "dangling"} \* Path.is_symlink()

EntriesAt(f, dir, name) == {e \in f : e.dir = dir /\ e.name = name}

\* Path.exists(): follows symbolic links
PathExists(f, dir, name) == \E e \in EntriesAt(f, dir, name) : e.kind # "dangling"

\* Mutant of is_system_file: symbolic links are not recognised
is_system_file_NoSymlink(e) == e.name \in system_files \/ StartsWith(e.name, ".")

\* is_system_file(file_path)
is_system_file(e) ==
    \/ e.name \in system_files
    \/ StartsWith(e.name, ".")
    \/ IsSymlink(e)

ExifExts == {".jpg", ".jpeg", ".tiff"}
ReadableExts == {".txt", ".md", ".py", ".js", ".html", ".css", ".json", ".xml", ".csv"}
ReadLimit == 1000

\* extract_metadata(file_path) when stat succeeds (size and times left out)
extract_metadata(e) ==
    LET base == [original_name |-> e.name, extension |-> Lower(Suffix(e.name))]
    IN  IF Lower(Suffix(e.name)) \in ExifExts /\ Bodies[e.body].exif # <<>>
        THEN [original_name |-> base.original_name, extension |-> base.extension,
              photo_date |-> Bodies[e.body].exif[1]]
        ELSE base

\* read_file_content(file_path); failed: the read raised, which is caught
read_file_content(e, failed) ==
    IF failed THEN ""
    ELSE IF Lower(Suffix(e.name)) \in ReadableExts \/ Lower(Suffix(e.name)) = ".pdf"
    THEN Prefix(Bodies[e.body].content, ReadLimit)
    ELSE ""

OrganizedPrefix == "Organized_"

\* The names create_organized_folders makes, in order
OrganizedFolderNames ==
    [i \in 1..(Len(file_categories) + 1) |->
        IF i <= Len(file_categories)
        THEN OrganizedPrefix \o file_categories[i].category
        ELSE OrganizedPrefix \o "Other"]

\* Path.mkdir(exist_ok=True) of root/name: a no-op on a directory, raises
\* FileExistsError on any other entry, and raises when the root refuses the
\* creation (denied).
Mkdir(f, name, denied) ==
    LET at == EntriesAt(f, "", name)
    IN  IF at = {}
        THEN IF denied THEN [fs |-> f, raised |-> TRUE]
             ELSE [fs |-> f \cup {[dir |-> "", name |-> name, kind |-> "dir", body |-> 1]},
                   raised |-> FALSE]
        ELSE IF \E e \in at : IsDir(e) THEN [fs |-> f, raised |-> FALSE]
        ELSE [fs |-> f, raised |-> TRUE]

\* create_organized_folders(base_folder), from the i-th name on
RECURSIVE create_organized_folders(_, _, _)
create_organized_folders(f, i, denied) ==
    IF i > Len(OrganizedFolderNames) THEN [fs |-> f, raised |-> FALSE]
    ELSE LET r == Mkdir(f, OrganizedFolderNames[i], denied)
         IN  IF r.raised THEN r ELSE create_organized_folders(r.fs, i + 1, denied)

\* Mutant of Candidate: the suffixes start at _2
Candidate_FromTwo(new_name, suffix, k) ==
    IF k = 0 THEN new_name \o suffix
    ELSE new_name \o "_" \o IntToStr(k + 1) \o suffix

\* The k-th candidate of conflict resolution (k = 0: the unsuffixed name)
Candidate(new_name, suffix, k) ==
    IF k = 0 THEN new_name \o suffix
    ELSE new_name \o "_" \o IntToStr(k) \o suffix

\* Mutant of OrganizeConflictLoop: the loop body never runs
OrganizeConflictLoop_NoCheck(f, dest_folder, new_name, suffix, new_filename, counter) ==
    new_filename

\* organize_files_in_folder, "Handle filename conflicts": the loop entered
\* with new_filename and counter
RECURSIVE OrganizeConflictLoop(_, _, _, _, _, _)
OrganizeConflictLoop(f, dest_folder, new_name, suffix, new_filename, counter) ==
    IF PathExists(f, dest_folder, new_filename)
    THEN OrganizeConflictLoop(f, dest_folder, new_name, suffix,
                              Candidate(new_name, suffix, counter), counter + 1)
    ELSE new_filename

\* Mutant of ReanalyzeConflictLoop: the loop body never runs
ReanalyzeConflictLoop_NoCheck(f, dest_folder, new_name, suffix, new_filename, counter, file_dir, file_name) ==
    new_filename

\* reanalyze_organized_files, "Handle filename conflicts": file_dir/file_name
\* is the path of the file being processed
RECURSIVE ReanalyzeConflictLoop(_, _, _, _, _, _, _, _)
ReanalyzeConflictLoop(f, dest_folder, new_name, suffix, new_filename, counter, file_dir, file_name) ==
    IF /\ PathExists(f, dest_folder, new_filename)
       /\ ~(dest_folder = file_dir /\ new_filename = file_name)
    THEN ReanalyzeConflictLoop(f, dest_folder, new_name, suffix,
                               Candidate(new_name, suffix, counter), counter + 1,
                               file_dir, file_name)
    ELSE new_filename

\* Mutant of MoveEntry: the source stays where it was (a copy)
MoveEntry_KeepSource(f, e, dst_dir, dst_name) ==
    (f \ EntriesAt(f, dst_dir, dst_name))
        \cup {[dir |-> dst_dir, name |-> dst_name, kind |-> e.kind, body |-> e.body]}

\* shutil.move(src, dst) when it succeeds: os.rename, which replaces whatever
\* non-directory entry is at dst
MoveEntry(f, e, dst_dir, dst_name) ==
    ((f \ {e}) \ EntriesAt(f, dst_dir, dst_name))
        \cup {[dir |-> dst_dir, name |-> dst_name, kind |-> e.kind, body |-> e.body]}

(***************************************************************************)
(* State.                                                                  *)
(***************************************************************************)
VARIABLES
    fs,                 \* the entries under the root
    root_kind,          \* what the root path is: "dir", "missing" or "file"
    ai_client,          \* self.ai_client: TRUE a client object, FALSE None
    actions_log,        \* actions_log.jsonl, one element per line
    pc,                 \* "idle", or the pass whose file loop is running
    dry_run,            \* reanalyze_organized_files: the dry_run argument
    files,              \* the part of the listing `files` not yet iterated
    organized_folders,  \* the part of `organized_folders` not yet iterated
    org_folder,         \* the organized folder being scanned ("" before the first)
    reanalysis_stats,   \* reanalyze_organized_files: the four counters
    run,                \* history: the pass running or last finished
    prev_run,           \* history: the pass before it
    last_step,          \* history: what the last loop iteration did
    cred_failed,        \* history: a call failed with an invalid-credential signal
    passes,             \* history: number of passes started
    faults,             \* number of operations the environment may still make fail
    fn_in,              \* argument of the function under test (function specifications)
    fn_out              \* its result

vars == <<fs, root_kind, ai_client, actions_log, pc, dry_run, files,
          organized_folders, org_folder, reanalysis_stats, run, prev_run,
          last_step, cred_failed, passes, faults, fn_in, fn_out>>

passVars == <<fs, root_kind, ai_client, actions_log, pc, dry_run, files,
              organized_folders, org_folder, reanalysis_stats, run, prev_run,
              last_step, cred_failed, passes, faults>>

\* Bounds of the model
MaxFiles == 2
MaxPasses == 2
MaxFaults == 1

Entry(dir, name, kind, body) == [dir |-> dir, name |-> name, kind |-> kind, body |-> body]

DirEntry(name) == Entry("", name, "dir", 1)

\* The files an initial filesystem is drawn from
Catalog == {
    Entry("", "a b.py", "file", 1),
    Entry("", "a_b.py", "file", 1),
    Entry("", "n.txt", "file", 2),
    Entry("", "l.py", "symlink", 1),
    Entry("", "Organized_Images", "file", 1),
    Entry("Organized_Documents", "s.py", "file", 1),
    Entry("Organized_Documents", "n.txt", "file", 2),
    Entry("Organized_Documents", "m.txt", "file", 2),
    Entry("Organized_Documents", "Thumbs.db", "file", 1),
    Entry("Organized_Code", "s.py", "dangling", 1),
    Entry("Organized_Code", "t.py", "file", 1),
    Entry("Organized_Code", "some_text_here_1.txt", "file", 2),
    Entry("Organized_Documents", "some_text_here.txt", "file", 5)
}

\* What the collaborator may answer to one call
AiOutcomes == {
    [kind |-> "reply", text |-> " report v2\n"],
    [kind |-> "error", text |-> "Error code: 401"],
    [kind |-> "error", text |-> "insufficient_quota"]
}

NoOutcome == [kind |-> "error", text |-> ""]

ZeroStats == [files_processed |-> 0, files_renamed |-> 0, files_moved |-> 0,
              ai_improvements |-> 0]

\* A pass, as the history keeps it: clean (no operation failed in it), changed
\* (it changed the filesystem), no_ai (it started without a client), the
\* paths it listed, those it skipped as system files, those it called
\* shutil.move on and those whose iteration raised, how it ended, whether the
\* root held no organized folder when it started (bare) and how many files
\* the organized folders held then (present).
NoRun == [op |-> "none", dry_run |-> FALSE, no_ai |-> TRUE, clean |-> TRUE,
          changed |-> FALSE, listing |-> {}, skipped |-> {}, attempted |-> {},
          errored |-> {}, done |-> TRUE, raised |-> FALSE, returned |-> <<>>,
          bare |-> TRUE, present |-> 0]

\* What is kept of a pass once the next one starts
Digest(r) ==
    [r EXCEPT !.listing = {}, !.skipped = {}, !.attempted = {}, !.errored = {},
              !.present = 0]

NoStep == [kind |-> "none", dir |-> "", name |-> "", system |-> FALSE,
           dst_dir |-> "", dst_name |-> "", dst_entries |-> {},
           moved |-> FALSE, logged |-> FALSE, called |-> FALSE, cred |-> FALSE,
           failed |-> FALSE, new_name |-> "", fallback |-> "", category |-> ""]

NoCall == [name |-> "", is_file |-> FALSE, mime_type |-> "", metadata |-> <<>>,
           content |-> "", ai_client |-> FALSE, outcome |-> NoOutcome]

NoResult == [new_name |-> "", mime |-> "", category |-> ""]

PathStr(dir, name) == IF dir = "" THEN name ELSE dir \o "/" \o name

InitialFilesystems ==
    {chosen \cup {DirEntry(d) : d \in {e.dir : e \in chosen} \ {""}} :
        chosen \in {c \in SUBSET Catalog : Cardinality(c) <= MaxFiles}}

PassInit ==
    /\ root_kind \in {"dir", "missing", "file"}
    /\ fs \in (IF root_kind = "dir" THEN InitialFilesystems ELSE {{}})
    /\ ai_client \in BOOLEAN
    /\ actions_log = <<>>
    /\ pc = "idle"
    /\ dry_run = FALSE
    /\ files = {}
    /\ organized_folders = {}
    /\ org_folder = ""
    /\ reanalysis_stats = ZeroStats
    /\ run = NoRun
    /\ prev_run = NoRun
    /\ last_step = NoStep
    /\ cred_failed = FALSE
    /\ passes = 0
    /\ faults = IF ai_client THEN 0 ELSE MaxFaults

Init ==
    /\ PassInit
    /\ fn_in = NoCall
    /\ fn_out = NoResult

(***************************************************************************)
(* OrganizePass: organize_files_in_folder.                                 *)
(*                                                                         *)
(* A loop iteration takes a fault, the operation of that iteration the     *)
(* environment lets fail: "stat" (extract_metadata raises), "read" (the    *)
(* read raises inside read_file_content), "mkdir", "move" (shutil.move     *)
(* raises, nothing moved), "log" (save_action_log raises), or "none".      *)
(***************************************************************************)
OrganizeFaults == {"none", "stat", "read", "move", "log"}

\* Mutant of RemainingAfterError: the error ends the loop
RemainingAfterError_Abort(remaining, name) == {}

\* The except clause of a file loop: the error is logged and the loop goes
\* on with the files it has not iterated yet
RemainingAfterError(remaining, name) == remaining \ {name}

\* Mutant of save_action_log: the file is opened for writing, not appending
save_action_log_Truncate(log, lines) == IF lines = <<>> THEN log ELSE lines

\* save_action_log(action_log) for each of lines (none or one), on the file
\* whose lines are log
save_action_log(log, lines) == log \o lines

\* Mutant of OrganizeLogEntry: new_path is built from the name the file had
OrganizeLogEntry_OriginalName(e, dst_dir, new_filename, ft, metadata) ==
    [original_path |-> PathStr(e.dir, e.name),
     new_path |-> PathStr(dst_dir, e.name),
     original_name |-> e.name,
     new_name |-> new_filename,
     category |-> ft.category,
     mime_type |-> ft.mime,
     metadata |-> metadata]

\* The log line organize_files_in_folder writes (timestamp left out)
OrganizeLogEntry(e, dst_dir, new_filename, ft, metadata) ==
    [original_path |-> PathStr(e.dir, e.name),
     new_path |-> PathStr(dst_dir, new_filename),
     original_name |-> e.name,
     new_name |-> new_filename,
     category |-> ft.category,
     mime_type |-> ft.mime,
     metadata |-> metadata]

\* History: the text of a failed call carries an invalid-credential signal
CredentialSignal(outcome) ==
    /\ outcome.kind = "error"
    /\ Contains(outcome.text, "invalid_api_key") \/ Contains(outcome.text, "401")

\* Whether the collaborator is called by generate_smart_filename
WillCallAi(client, content) == content # "" /\ client

\* History: the collaborator was called and the call raised
CallFailed(g, outcome) == g.called /\ outcome.kind = "error"

\* History: the name generate_smart_filename returns for e when self.ai_client
\* is None
NameWithoutClient(e, metadata, fault) ==
    generate_smart_filename(e.name, metadata, read_file_content(e, fault = "read"),
                            FALSE, NoOutcome).new_name

\* organize_files_in_folder from the move on, with the destination chosen
OrganizeResolved(f, client, e, fault, outcome, ft, metadata, g, dest_folder, new_filename) ==
    LET step == [kind |-> "error", dir |-> e.dir, name |-> e.name, system |-> FALSE,
                 dst_dir |-> dest_folder, dst_name |-> new_filename,
                 dst_entries |-> EntriesAt(f, dest_folder, new_filename),
                 moved |-> FALSE, logged |-> FALSE, called |-> FALSE, cred |-> FALSE,
                 failed |-> CallFailed(g, outcome), new_name |-> g.new_name,
                 fallback |-> NameWithoutClient(e, metadata, fault),
                 category |-> ft.category]
        cred == g.called /\ CredentialSignal(outcome)
    IN  IF fault = "move"
        THEN [fs |-> f, ai_client |-> g.ai_client, log |-> <<>>, step |-> step,
              called |-> g.called, cred |-> cred, raised |-> TRUE, attempted |-> TRUE,
              faulted |-> TRUE]
        ELSE IF fault = "log"
        THEN [fs |-> MoveEntry(f, e, dest_folder, new_filename),
              ai_client |-> g.ai_client, log |-> <<>>,
              step |-> [step EXCEPT !.moved = TRUE],
              called |-> g.called, cred |-> cred, raised |-> TRUE, attempted |-> TRUE,
              faulted |-> TRUE]
        ELSE [fs |-> MoveEntry(f, e, dest_folder, new_filename),
              ai_client |-> g.ai_client,
              log |-> <<OrganizeLogEntry(e, dest_folder, new_filename, ft, metadata)>>,
              step |-> [step EXCEPT !.kind = "moved", !.moved = TRUE, !.logged = TRUE],
              called |-> g.called, cred |-> cred, raised |-> FALSE, attempted |-> TRUE,
              faulted |-> (fault = "read" /\ read_file_content(e, FALSE) # "")]

\* organize_files_in_folder from "Prepare destination" on, with the type ft,
\* the metadata and the result g of generate_smart_filename
OrganizeNamed(f, client, e, fault, outcome, ft, metadata, g) ==
    OrganizeResolved(f, client, e, fault, outcome, ft, metadata, g,
                     OrganizedPrefix \o ft.category,
                     OrganizeConflictLoop(f, OrganizedPrefix \o ft.category, g.new_name,
                                          Suffix(e.name), g.new_name \o Suffix(e.name), 1))

\* One iteration of the loop of organize_files_in_folder on entry e: the
\* filesystem and client afterwards, the log lines appended, and what
\* happened (raised: the except clause ran; faulted: the fault was hit).
OrganizeOne(f, client, e, fault, outcome) ==
    IF is_system_file(e)
    THEN [fs |-> f, ai_client |-> client, log |-> <<>>,
          step |-> [NoStep EXCEPT !.kind = "skip", !.dir = e.dir, !.name = e.name,
                                  !.system = TRUE],
          called |-> FALSE, cred |-> FALSE, raised |-> FALSE, attempted |-> FALSE,
          faulted |-> FALSE]
    ELSE IF fault = "stat"
    THEN [fs |-> f, ai_client |-> client, log |-> <<>>,
          step |-> [NoStep EXCEPT !.kind = "error", !.dir = e.dir, !.name = e.name],
          called |-> FALSE, cred |-> FALSE, raised |-> TRUE, attempted |-> FALSE,
          faulted |-> TRUE]
    ELSE OrganizeNamed(f, client, e, fault, outcome,
                       get_file_type(IsFile(e), e.name, Bodies[e.body].mime),
                       extract_metadata(e),
                       generate_smart_filename(e.name, extract_metadata(e),
                                               read_file_content(e, fault = "read"),
                                               client, outcome))

\* The outcomes the collaborator can give in an iteration on e
OutcomesFor(client, e, fault) ==
    IF /\ ~is_system_file(e)
       /\ fault # "stat"
       /\ WillCallAi(client, read_file_content(e, fault = "read"))
    THEN AiOutcomes
    ELSE {NoOutcome}

StartRun(op, dry) ==
    [op |-> op, dry_run |-> dry, no_ai |-> ~ai_client, clean |-> TRUE,
     changed |-> FALSE, listing |-> {}, skipped |-> {}, attempted |-> {},
     errored |-> {}, done |-> FALSE, raised |-> FALSE, returned |-> <<>>,
     bare |-> ~\E x \in fs : /\ x.dir = "" /\ x.kind = "dir"
                             /\ Len(x.name) >= 10
                             /\ SubSeq(x.name, 1, 10) = "Organized_",
     present |-> Cardinality({x \in fs : /\ x.kind \in {"file", "symlink"}
                                         /\ Len(x.dir) >= 10
                                         /\ SubSeq(x.dir, 1, 10) = "Organized_"})]

\* Mutant of FolderExists: a missing path passes the test
FolderExists_Always(kind) == TRUE

\* Mutant of FolderExists: only a regular file fails the test
FolderExists_IsDirOrMissing(kind) == kind # "file"

\* folder_path.exists() of the root
FolderExists(kind) == kind # "missing"

Faulty(failed) == IF failed THEN 1 ELSE 0

\* organize_files_in_folder up to the file loop: the existence test,
\* create_organized_folders and the listing.  denied: the root refuses the
\* creation of a subfolder; list_fails: iterdir raises.
StartOrganize ==
    /\ pc = "idle"
    /\ passes < MaxPasses
    /\ passes' = passes + 1
    /\ prev_run' = Digest(run)
    /\ last_step' = NoStep
    /\ \E denied \in BOOLEAN, list_fails \in BOOLEAN :
         LET made == IF root_kind # "dir" THEN [fs |-> fs, raised |-> TRUE]
                     ELSE create_organized_folders(fs, 1, denied)
             listing == {e.name : e \in {x \in made.fs : x.dir = "" /\ IsFile(x)
                                            /\ ~StartsWith(x.name, OrganizedPrefix)}}
         IN  /\ root_kind = "missing" => ~denied /\ ~list_fails
             /\ root_kind = "file" => ~denied /\ ~list_fails
             /\ (denied /\ root_kind = "dir") => made.raised
             /\ list_fails => ~made.raised
             /\ (denied \/ list_fails) => faults > 0
             /\ faults' = faults - Faulty(denied \/ list_fails)
             /\ IF ~FolderExists(root_kind)
                THEN /\ run' = [StartRun("organize", FALSE) EXCEPT !.done = TRUE]
                     /\ UNCHANGED <<fs, pc, files>>
                ELSE IF made.raised \/ list_fails
                THEN /\ fs' = made.fs
                     /\ run' = [StartRun("organize", FALSE) EXCEPT
                                    !.done = TRUE, !.raised = TRUE,
                                    !.clean = ~(denied \/ list_fails),
                                    !.changed = (made.fs # fs)]
                     /\ UNCHANGED <<pc, files>>
                ELSE /\ fs' = made.fs
                     /\ files' = listing
                     /\ pc' = "organize"
                     /\ run' = [StartRun("organize", FALSE) EXCEPT
                                    !.changed = (made.fs # fs),
                                    !.listing = {PathStr("", n) : n \in listing}]
    /\ UNCHANGED <<root_kind, ai_client, actions_log, dry_run, organized_folders,
                   org_folder, reanalysis_stats, cred_failed, fn_in, fn_out>>

\* The state after the iteration on name whose result is r
OrganizeIteration(name, fault, r) ==
    /\ fault = "none" \/ r.faulted
    /\ faults' = faults - Faulty(fault # "none")
    /\ fs' = r.fs
    /\ ai_client' = r.ai_client
    /\ actions_log' = save_action_log(actions_log, r.log)
    /\ files' = IF r.raised THEN RemainingAfterError(files, name) ELSE files \ {name}
    /\ last_step' = [r.step EXCEPT !.called = r.called, !.cred = r.cred]
    /\ cred_failed' = (cred_failed \/ r.cred)
    /\ run' = [run EXCEPT
         !.clean = @ /\ fault = "none",
         !.changed = @ \/ r.fs # fs,
         !.skipped = IF r.step.kind = "skip" THEN @ \cup {PathStr("", name)} ELSE @,
         !.attempted = IF r.attempted THEN @ \cup {PathStr("", name)} ELSE @,
         !.errored = IF r.raised THEN @ \cup {PathStr("", name)} ELSE @]

\* The entry of directory dir named name
EntryNamed(f, dir, name) == CHOOSE x \in f : x.dir = dir /\ x.name = name

\* One iteration of `for file_path in files` (iterdir gives no order)
OrganizeFile ==
    /\ pc = "organize"
    /\ \E name \in files, fault \in OrganizeFaults :
         /\ fault = "none" \/ faults > 0
         /\ \E outcome \in OutcomesFor(ai_client, EntryNamed(fs, "", name), fault) :
              OrganizeIteration(name, fault,
                                OrganizeOne(fs, ai_client, EntryNamed(fs, "", name),
                                            fault, outcome))
    /\ UNCHANGED <<root_kind, pc, dry_run, organized_folders, org_folder,
                   reanalysis_stats, prev_run, passes, fn_in, fn_out>>

\* The loop is exhausted: organize_files_in_folder returns
FinishOrganize ==
    /\ pc = "organize"
    /\ files = {}
    /\ pc' = "idle"
    /\ run' = [run EXCEPT !.done = TRUE]
    /\ last_step' = NoStep
    /\ UNCHANGED <<fs, root_kind, ai_client, actions_log, dry_run, files,
                   organized_folders, org_folder, reanalysis_stats, prev_run,
                   cred_failed, passes, faults, fn_in, fn_out>>

(***************************************************************************)
(* ReconcilePass: reanalyze_organized_files.                               *)
(***************************************************************************)
ReanalyzeFaults == {"none", "stat", "read", "mkdir", "move", "log"}

ImprovementMargin == 5

\* current_category = org_folder.name.replace('Organized_', '')
CurrentCategory(folder) == Replace(folder, OrganizedPrefix, "")

\* The log line reanalyze_organized_files writes (timestamp left out)
ReanalysisLogEntry(e, dst_dir, new_filename, current_category, ft, change_type, metadata) ==
    [action |-> "reanalysis",
     original_path |-> PathStr(e.dir, e.name),
     new_path |-> PathStr(dst_dir, new_filename),
     original_name |-> e.name,
     new_name |-> new_filename,
     original_category |-> current_category,
     new_category |-> ft.category,
     change_type |-> change_type,
     mime_type |-> ft.mime,
     metadata |-> metadata]

\* The counters after the statements that follow the conflict loop
CountChange(stats, needs_category_move, needs_rename) ==
    [stats EXCEPT
        !.files_moved = IF needs_category_move THEN @ + 1 ELSE @,
        !.files_renamed = IF needs_rename THEN @ + 1 ELSE @]

\* "Count AI improvements"
CountImprovement(stats, needs_rename, new_name, name) ==
    [stats EXCEPT
        !.ai_improvements =
            IF needs_rename /\ Len(new_name) > Len(Stem(name)) + ImprovementMargin
            THEN @ + 1 ELSE @]

\* Mutant of NeedsRename: the generated file name is compared with the stem
NeedsRename_StemOnly(new_filename, name) == new_filename # Stem(name)

\* needs_rename = new_filename != file_path.name
NeedsRename(new_filename, name) == new_filename # name

\* reanalyze_organized_files from the counting on, with the destination chosen
ReanalyzeResolved(f, stats, dry, e, fault, outcome, ft, metadata, g, new_dest_folder, mk, new_filename) ==
    LET counted == [stats EXCEPT !.files_processed = @ + 1]
        current_category == CurrentCategory(e.dir)
        needs_category_move == ft.category # CurrentCategory(e.dir)
        needs_rename == NeedsRename(g.new_name \o Suffix(e.name), e.name)
        same_path == new_dest_folder = e.dir /\ new_filename = e.name
        change_type ==
            (IF needs_category_move
             THEN <<"category: " \o current_category \o " → " \o ft.category>> ELSE <<>>)
            \o (IF needs_rename
                THEN <<"name: " \o e.name \o " → " \o new_filename>> ELSE <<>>)
        changed == CountChange(counted, needs_category_move, needs_rename)
        improved == CountImprovement(changed, needs_rename, g.new_name, e.name)
        base == [fs |-> f, ai_client |-> g.ai_client, stats |-> counted, log |-> <<>>,
                 step |-> [kind |-> "error", dir |-> e.dir, name |-> e.name,
                           system |-> FALSE, dst_dir |-> new_dest_folder,
                           dst_name |-> new_filename,
                           dst_entries |-> EntriesAt(mk.fs, new_dest_folder, new_filename),
                           moved |-> FALSE, logged |-> FALSE, called |-> FALSE,
                           cred |-> FALSE, failed |-> CallFailed(g, outcome),
                           new_name |-> g.new_name,
                           fallback |-> NameWithoutClient(e, metadata, fault),
                           category |-> ft.category],
                 called |-> g.called, cred |-> g.called /\ CredentialSignal(outcome),
                 raised |-> FALSE, attempted |-> FALSE,
                 faulted |-> (fault = "read" /\ read_file_content(e, FALSE) # "")]
    IN  IF ~(needs_category_move \/ needs_rename)
        THEN [base EXCEPT !.step = [base.step EXCEPT !.kind = "nochange", !.dst_dir = "",
                                                     !.dst_name = "", !.dst_entries = {}]]
        ELSE IF mk.raised
        THEN [base EXCEPT !.raised = TRUE, !.faulted = (fault = "mkdir"),
                          !.step = [base.step EXCEPT !.dst_dir = "", !.dst_name = "",
                                                     !.dst_entries = {}]]
        ELSE IF dry
        THEN [base EXCEPT !.fs = mk.fs, !.stats = improved, !.step.kind = "planned"]
        ELSE IF same_path
        THEN [base EXCEPT !.fs = mk.fs, !.stats = improved, !.step.kind = "kept"]
        ELSE IF fault = "move"
        THEN [base EXCEPT !.fs = mk.fs, !.stats = changed, !.raised = TRUE,
                          !.attempted = TRUE, !.faulted = TRUE]
        ELSE IF fault = "log"
        THEN [base EXCEPT !.fs = MoveEntry(mk.fs, e, new_dest_folder, new_filename),
                          !.stats = changed, !.raised = TRUE, !.attempted = TRUE,
                          !.faulted = TRUE, !.step.moved = TRUE]
        ELSE [base EXCEPT !.fs = MoveEntry(mk.fs, e, new_dest_folder, new_filename),
                          !.stats = improved, !.attempted = TRUE,
                          !.log = <<ReanalysisLogEntry(e, new_dest_folder, new_filename,
                                                       current_category, ft, change_type,
                                                       metadata)>>,
                          !.step.kind = "moved", !.step.moved = TRUE,
                          !.step.logged = TRUE]

\* reanalyze_organized_files, "Handle filename conflicts", with the
\* destination folder and the result mk of creating it
ReanalyzeMade(f, stats, dry, e, fault, outcome, ft, metadata, g, new_dest_folder, mk) ==
    ReanalyzeResolved(f, stats, dry, e, fault, outcome, ft, metadata, g, new_dest_folder, mk,
                      ReanalyzeConflictLoop(mk.fs, new_dest_folder, g.new_name,
                                            Suffix(e.name), g.new_name \o Suffix(e.name), 1,
                                            e.dir, e.name))

\* reanalyze_organized_files from the comparison with the current category
\* on, with the type ft, the metadata and the result g of
\* generate_smart_filename.  The folder is created only when a change is
\* needed, and needs_category_move then decides which.
ReanalyzeNamed(f, stats, dry, e, fault, outcome, ft, metadata, g) ==
    IF ft.category # CurrentCategory(e.dir)
    THEN ReanalyzeMade(f, stats, dry, e, fault, outcome, ft, metadata, g,
                       OrganizedPrefix \o ft.category,
                       Mkdir(f, OrganizedPrefix \o ft.category, fault = "mkdir"))
    ELSE ReanalyzeMade(f, stats, dry, e, fault, outcome, ft, metadata, g,
                       e.dir, [fs |-> f, raised |-> FALSE])

\* One iteration of the inner loop of reanalyze_organized_files on entry e of
\* the organized folder e.dir, entered with the counters stats.
ReanalyzeOne(f, client, stats, dry, e, fault, outcome) ==
    IF is_system_file(e) \/ fault = "stat"
    THEN [fs |-> f, ai_client |-> client,
          stats |-> [stats EXCEPT !.files_processed = @ + 1], log |-> <<>>,
          step |-> IF is_system_file(e)
                   THEN [NoStep EXCEPT !.kind = "skip", !.dir = e.dir, !.name = e.name,
                                       !.system = TRUE]
                   ELSE [NoStep EXCEPT !.kind = "error", !.dir = e.dir, !.name = e.name],
          called |-> FALSE, cred |-> FALSE, raised |-> ~is_system_file(e),
          attempted |-> FALSE, faulted |-> ~is_system_file(e)]
    ELSE ReanalyzeNamed(f, stats, dry, e, fault, outcome,
                        get_file_type(IsFile(e), e.name, Bodies[e.body].mime),
                        extract_metadata(e),
                        generate_smart_filename(e.name, extract_metadata(e),
                                                read_file_content(e, fault = "read"),
                                                client, outcome))

\* reanalyze_organized_files up to the folder loop: the existence test and
\* the listing of the Organized_* folders.  list_fails: iterdir raises.
StartReanalyze ==
    /\ pc = "idle"
    /\ passes < MaxPasses
    /\ passes' = passes + 1
    /\ prev_run' = Digest(run)
    /\ last_step' = NoStep
    /\ \E dry \in BOOLEAN, list_fails \in BOOLEAN :
         LET found == {e.name : e \in {x \in fs : x.dir = "" /\ IsDir(x)
                                          /\ StartsWith(x.name, OrganizedPrefix)}}
         IN  /\ root_kind = "missing" => ~list_fails
             /\ root_kind = "file" => ~list_fails
             /\ list_fails => faults > 0
             /\ faults' = faults - Faulty(list_fails)
             /\ dry_run' = dry
             /\ IF ~FolderExists(root_kind)
                THEN /\ run' = [StartRun("reanalyze", dry) EXCEPT !.done = TRUE]
                     /\ UNCHANGED <<pc, organized_folders, reanalysis_stats>>
                ELSE IF list_fails \/ root_kind # "dir"
                THEN /\ run' = [StartRun("reanalyze", dry) EXCEPT
                                    !.done = TRUE, !.raised = TRUE, !.clean = ~list_fails]
                     /\ UNCHANGED <<pc, organized_folders, reanalysis_stats>>
                ELSE IF found = {}
                THEN /\ run' = [StartRun("reanalyze", dry) EXCEPT !.done = TRUE]
                     /\ UNCHANGED <<pc, organized_folders, reanalysis_stats>>
                ELSE /\ run' = StartRun("reanalyze", dry)
                     /\ pc' = "reanalyze"
                     /\ organized_folders' = found
                     /\ reanalysis_stats' = ZeroStats
    /\ org_folder' = ""
    /\ files' = {}
    /\ UNCHANGED <<fs, root_kind, ai_client, actions_log, cred_failed,
                   fn_in, fn_out>>

\* The files of an organized folder, as its listing gives them
FolderFiles(f, folder) == {x \in f : x.dir = folder /\ IsFile(x)}

\* iterdir gives the organized folders in no particular order.  An iteration
\* on a folder that holds no file does nothing, so the place of such an
\* iteration in the order is left open: it is fixed when a file is moved into
\* the folder (ReanalyzeFile decides whether the folder's iteration has
\* passed), or at the end of the pass.

\* One iteration of `for org_folder in organized_folders` up to its inner
\* loop: the listing of the folder's files.  list_fails: iterdir raises, which
\* no handler of the pass catches.
NextFolder ==
    /\ pc = "reanalyze"
    /\ files = {}
    /\ organized_folders # {}
    /\ \E folder \in organized_folders, list_fails \in BOOLEAN :
         /\ list_fails \/ FolderFiles(fs, folder) # {}
         /\ list_fails => faults > 0
         /\ faults' = faults - Faulty(list_fails)
         /\ org_folder' = folder
         /\ organized_folders' = organized_folders \ {folder}
         /\ IF list_fails
            THEN /\ pc' = "idle"
                 /\ files' = {}
                 /\ run' = [run EXCEPT !.done = TRUE, !.raised = TRUE, !.clean = FALSE]
            ELSE /\ pc' = pc
                 /\ files' = {e.name : e \in FolderFiles(fs, folder)}
                 /\ run' = [run EXCEPT !.listing =
                        @ \cup {PathStr(folder, e.name) : e \in FolderFiles(fs, folder)}]
    /\ last_step' = NoStep
    /\ UNCHANGED <<fs, root_kind, ai_client, actions_log, dry_run, reanalysis_stats,
                   prev_run, cred_failed, passes, fn_in, fn_out>>

\* The state after the iteration on name whose result is r
ReanalyzeIteration(name, fault, r) ==
    /\ fault = "none" \/ r.faulted
    /\ faults' = faults - Faulty(fault # "none")
    /\ fs' = r.fs
    /\ ai_client' = r.ai_client
    /\ actions_log' = save_action_log(actions_log, r.log)
    /\ reanalysis_stats' = r.stats
    /\ \E passed \in BOOLEAN :
         /\ passed =>
               /\ r.step.moved
               /\ r.step.dst_dir \in organized_folders
               /\ FolderFiles(fs, r.step.dst_dir) = {}
         /\ organized_folders' =
               IF passed THEN organized_folders \ {r.step.dst_dir}
               ELSE organized_folders
    /\ files' = IF r.raised THEN RemainingAfterError(files, name) ELSE files \ {name}
    /\ last_step' = [r.step EXCEPT !.called = r.called, !.cred = r.cred]
    /\ cred_failed' = (cred_failed \/ r.cred)
    /\ run' = [run EXCEPT
         !.clean = @ /\ fault = "none",
         !.changed = @ \/ r.fs # fs,
         !.skipped = IF r.step.kind = "skip"
                     THEN @ \cup {PathStr(org_folder, name)} ELSE @,
         !.attempted = IF r.attempted THEN @ \cup {PathStr(org_folder, name)} ELSE @,
         !.errored = IF r.raised THEN @ \cup {PathStr(org_folder, name)} ELSE @]

\* One iteration of `for file_path in files`
ReanalyzeFile ==
    /\ pc = "reanalyze"
    /\ \E name \in files, fault \in ReanalyzeFaults :
         /\ fault = "none" \/ faults > 0
         /\ \E outcome \in OutcomesFor(ai_client, EntryNamed(fs, org_folder, name), fault) :
              ReanalyzeIteration(name, fault,
                                 ReanalyzeOne(fs, ai_client, reanalysis_stats, dry_run,
                                              EntryNamed(fs, org_folder, name),
                                              fault, outcome))
    /\ UNCHANGED <<root_kind, pc, dry_run, org_folder, prev_run, passes, fn_in, fn_out>>

\* Both loops are exhausted: reanalyze_organized_files returns the counters
FinishReanalyze ==
    /\ pc = "reanalyze"
    /\ files = {}
    /\ \A folder \in organized_folders : FolderFiles(fs, folder) = {}
    /\ organized_folders' = {}
    /\ pc' = "idle"
    /\ run' = [run EXCEPT !.done = TRUE, !.returned = <<reanalysis_stats>>]
    /\ last_step' = NoStep
    /\ UNCHANGED <<fs, root_kind, ai_client, actions_log, dry_run, files,
                   org_folder, reanalysis_stats, prev_run,
                   cred_failed, passes, faults, fn_in, fn_out>>

Next ==
    \/ StartOrganize
    \/ OrganizeFile
    \/ FinishOrganize
    \/ StartReanalyze
    \/ NextFolder
    \/ ReanalyzeFile
    \/ FinishReanalyze

Spec == Init /\ [][Next]_vars

(***************************************************************************)
(* Function specifications: the classifier and the namer applied to        *)
(* arguments drawn from bounded sets.  The pass variables stand still.     *)
(***************************************************************************)
FunctionInit ==
    /\ root_kind = "missing"
    /\ fs = {}
    /\ actions_log = <<>>
    /\ pc = "idle"
    /\ dry_run = FALSE
    /\ files = {}
    /\ organized_folders = {}
    /\ org_folder = ""
    /\ reanalysis_stats = ZeroStats
    /\ run = NoRun
    /\ prev_run = NoRun
    /\ last_step = NoStep
    /\ cred_failed = FALSE
    /\ passes = 0
    /\ faults = 0

TableExtensions == UNION {Range(file_categories[i].extensions) : i \in 1..Len(file_categories)}

\* A file name with the lowercased extension it carries
ClassifierNames ==
    {[name |-> "f" \o x, ext |-> x] : x \in TableExtensions}
    \cup {[name |-> "F.PY", ext |-> ".py"],
          [name |-> "f.Jpg", ext |-> ".jpg"],
          [name |-> "a.tar.GZ", ext |-> ".gz"],
          [name |-> "f.xyz", ext |-> ".xyz"],
          [name |-> "f.pyc", ext |-> ".pyc"],
          [name |-> "f.É", ext |-> ".é"],
          [name |-> "f", ext |-> ""],
          [name |-> "f.", ext |-> ""],
          [name |-> "py", ext |-> ""]}

ClassifierCases ==
    {[name |-> n.name, ext |-> n.ext, is_file |-> b, mime_type |-> m] :
        n \in ClassifierNames, b \in BOOLEAN, m \in {"", "text/plain"}}

ClassifierInit ==
    /\ FunctionInit
    /\ ai_client = FALSE
    /\ fn_in \in ClassifierCases
    /\ fn_out = NoResult

\* A call of get_file_type
Classify ==
    /\ fn_out = NoResult
    /\ fn_out' = get_file_type(fn_in.is_file, fn_in.name, fn_in.mime_type)
    /\ UNCHANGED <<passVars, fn_in>>

ClassifierNext == Classify

ClassifierSpec == ClassifierInit /\ [][ClassifierNext]_vars

NamerNames == {"é.md", "a b.py", "n.txt", "p.jpg", "notes", "sample.txt"}

NamerPhotoDates == {"2024:07:15 14:30:22", "2024/07/15"}

\* The last one is 206 characters long: its third word starts at character 202
NamerContents ==
    {"", "some text here", "ab cd",
     "This is a sample document about machine learning algorithms.",
     "alpha                                                                                                                                                                                              betas gamma"}

NamerOutcomes ==
    AiOutcomes \cup {[kind |-> "reply", text |-> "ab"],
                     [kind |-> "reply", text |-> "été 2024"],
                     [kind |-> "error", text |-> "INVALID_API_KEY"]}

\* Arguments as organize_files_in_folder builds them: a photo date only for
\* the extensions extract_metadata reads EXIF from
NamerCases ==
    {[name |-> n, metadata |-> [original_name |-> n], content |-> c, outcome |-> o] :
        n \in NamerNames, c \in NamerContents, o \in NamerOutcomes}
    \cup {[name |-> n, metadata |-> [original_name |-> n, photo_date |-> d],
           content |-> c, outcome |-> o] :
        n \in {x \in NamerNames : Lower(Suffix(x)) \in ExifExts},
        d \in NamerPhotoDates, c \in NamerContents, o \in NamerOutcomes}

NamerInit ==
    /\ FunctionInit
    /\ ai_client \in BOOLEAN
    /\ fn_in \in NamerCases
    /\ fn_out = NoResult

\* A call of generate_smart_filename
Name ==
    /\ fn_out = NoResult
    /\ LET g == generate_smart_filename(fn_in.name, fn_in.metadata, fn_in.content,
                                        ai_client, fn_in.outcome)
       IN  /\ fn_out' = [new_name |-> g.new_name, called |-> g.called]
           /\ ai_client' = g.ai_client
    /\ UNCHANGED <<fs, root_kind, actions_log, pc, dry_run, files, organized_folders,
                   org_folder, reanalysis_stats, run, prev_run, last_step,
                   cred_failed, passes, faults, fn_in>>

NamerNext == Name

NamerSpec == NamerInit /\ [][NamerNext]_vars

(***************************************************************************)
(* Properties.                                                             *)
(***************************************************************************)
\* The last finished pass was a reconcile pass that returned its counters
\* and in which no operation failed
CleanReanalysis(r, dry) ==
    /\ r.op = "reanalyze"
    /\ r.done
    /\ ~r.raised
    /\ r.dry_run = dry
    /\ r.clean
    /\ r.returned # <<>>

C2_SecondRunCountsNothing ==
    (/\ CleanReanalysis(prev_run, FALSE)
     /\ prev_run.no_ai
     /\ CleanReanalysis(run, FALSE))
    => /\ run.returned[1].files_renamed = 0
       /\ run.returned[1].files_moved = 0

\* C3 (as claimed): a dry-run reconcile pass changes neither the filesystem
\* (no move, no rename, no directory created) nor the action log.
C3_DryRunChangesNothing ==
    [][(pc = "reanalyze" /\ dry_run) => (fs' = fs /\ actions_log' = actions_log)]_vars

\* C4 (as claimed): a dry run and a live run started from the same filesystem
\* return the same four counters.  The live run follows a dry run that left
\* the filesystem as it was; neither has a collaborator or a failure.
C4_DryRunSameCounters ==
    (/\ CleanReanalysis(prev_run, TRUE)
     /\ ~prev_run.changed
     /\ prev_run.no_ai
     /\ CleanReanalysis(run, FALSE))
    => run.returned = prev_run.returned

\* C5 (as claimed): the name returned by generate_smart_filename is non-empty
\* and made of A-Z, a-z, 0-9, '_' and '-' only.
C5_NameIsAsciiSafe ==
    fn_out # NoResult =>
        /\ fn_out.new_name # ""
        /\ \A i \in 1..Len(fn_out.new_name) : IsAsciiNameChar(CharAt(fn_out.new_name, i))

\* The categories whose extension list holds ext
TableCategories(ext) ==
    {file_categories[i].category :
        i \in {k \in 1..Len(file_categories) : ext \in Range(file_categories[k].extensions)}}

\* C6: for a regular file, get_file_type returns the one category whose list
\* holds the file's extension, compared case-insensitively, and Other when no
\* list holds it (the empty extension included); no extension is in two lists.
C6_ClassifierTotal ==
    (fn_out # NoResult /\ fn_in.is_file) =>
        LET cats == TableCategories(fn_in.ext)
        IN  /\ Cardinality(cats) <= 1
            /\ fn_out.category \in (IF cats = {} THEN {"Other"} ELSE cats)
            /\ fn_out.mime # ""

\* C6 witness: an upper-case extension was classified
C6_Witness ==
    /\ fn_out # NoResult
    /\ fn_in.is_file
    /\ fn_in.name = "F.PY"
    /\ fn_out.category = "Code"

\* C7: in the organize pass a failure on one file (metadata, move or log)
\* drops no other file: every listed file is still to be iterated, was
\* skipped as a system file, had a move attempted, or failed itself; and when
\* the pass has returned, every listed file that was neither skipped nor
\* failed had its move attempted, and the pass did not raise.
C7_ErrorIsolation ==
    (run.op = "organize" /\ ~run.raised) =>
        /\ run.listing =
              (IF pc = "organize" THEN {PathStr("", n) : n \in files} ELSE {})
              \cup run.skipped \cup run.attempted \cup run.errored
        /\ run.done => (run.listing \ (run.skipped \cup run.errored)) \subseteq run.attempted

\* C7 witness: a pass returned in which one file failed and another had its
\* move attempted
C7_Witness ==
    /\ run.op = "organize"
    /\ run.done
    /\ ~run.raised
    /\ run.errored # {}
    /\ (run.attempted \ run.errored) # {}

\* C8 (as claimed): organize_files_in_folder never raises to its caller.
C8_OrganizeNeverRaises == run.op = "organize" => ~run.raised

\* An entry the passes must leave alone, in the words of the claim
NeverOrganized(e) ==
    \/ e.name \in {".DS_Store", ".localized", "Thumbs.db", ".Trashes", ".fseventsd"}
    \/ Head(e.name) = "."
    \/ e.kind \in {"symlink", "dangling"}

\* C9: an entry of the ignore-set, a dot-file or a symbolic link stays at its
\* path through every step of every pass, and no log line is written for it.
\* (A dangling link can be replaced by a file moved onto its path, which
\* neither moves nor renames the link.)
C9_SystemFilesUntouched ==
    [][\A e \in fs :
          NeverOrganized(e) =>
              /\ \/ e \in fs'
                 \/ /\ e.kind = "dangling"
                    /\ \E x \in fs' : x.dir = e.dir /\ x.name = e.name /\ x.kind = "file"
              /\ \A k \in (Len(actions_log) + 1)..Len(actions_log') :
                    actions_log'[k].original_path # PathStr(e.dir, e.name)]_vars

\* C9 witness: the reconcile pass came across a file of the ignore-set
C9_Witness ==
    /\ pc = "reanalyze"
    /\ last_step.kind = "skip"
    /\ last_step.name = "Thumbs.db"

\* C10: once a call has failed with an invalid-credential signal the client
\* is disabled for good, and no later iteration calls the collaborator.
C10_StickyBreaker ==
    /\ [](cred_failed => ~ai_client)
    /\ [][cred_failed => ~last_step'.called]_vars

\* C10 witness: after the credential failure a file with text content was
\* organized without a call
C10_Witness ==
    /\ cred_failed
    /\ last_step.kind = "moved"
    /\ last_step.name \in {"n.txt", "m.txt"}
    /\ ~last_step.called

\* C11: a failed content-analysis call, whatever the error, gives the file the
\* name the Namer returns without a client, and the iteration goes on as for
\* any file (the organize pass moves and logs it, the reconcile pass raises
\* nothing for it); when the error text, lowercased as the code reads it,
\* holds neither 'invalid_api_key' nor '401', the client is still enabled
\* after the iteration.
C11_FailedCallFallsBack ==
    last_step.failed =>
        /\ last_step.called
        /\ last_step.new_name = last_step.fallback
        /\ last_step.kind # "error"
        /\ run.op = "organize" => (last_step.moved /\ last_step.logged)
        /\ ~last_step.cred => ai_client

\* C11 witness: a call failed on a quota error, the file was moved under its
\* non-AI name and the client is still there
C11_Witness ==
    /\ last_step.failed
    /\ ~last_step.cred
    /\ last_step.kind = "moved"
    /\ last_step.new_name = "some_text_here"
    /\ ai_client

\* The step just taken processed, in a live reconcile pass with no failed
\* operation, a file whose recomputed category is not its folder's
MiscategorizedStep ==
    /\ pc = "reanalyze"
    /\ ~dry_run
    /\ run'.clean
    /\ last_step'.category # ""
    /\ last_step'.category # CurrentCategory(last_step'.dir)

\* C12 (as claimed): in a live reconcile pass a file of Organized_<X> whose
\* recomputed category is Y # X ends up in Organized_<Y> under the root,
\* which exists afterwards, files_moved grows by exactly 1, and files_renamed
\* grows (by 1) only if the name the file ends up with is not the name it had.
C12_CategoryCorrection ==
    [][MiscategorizedStep =>
          /\ \E x \in fs' : /\ x.dir = "Organized_" \o last_step'.category
                            /\ x.name = last_step'.dst_name
                            /\ x.kind = "file"
          /\ ~\E x \in fs' : x.dir = last_step'.dir /\ x.name = last_step'.name
          /\ \E x \in fs' : /\ x.dir = ""
                            /\ x.name = "Organized_" \o last_step'.category
                            /\ x.kind = "dir"
          /\ reanalysis_stats'.files_moved = reanalysis_stats.files_moved + 1
          /\ reanalysis_stats'.files_renamed \in
                {reanalysis_stats.files_renamed, reanalysis_stats.files_renamed + 1}
          /\ reanalysis_stats'.files_renamed # reanalysis_stats.files_renamed
                => last_step'.dst_name # last_step'.name]_vars

\* C13 (as claimed): the files_processed counter a reconcile pass returns is
\* the number of files it listed in the organized folders and did not skip
\* as system files, whether or not their processing succeeded.
C13_ProcessedCountsNonSkipped ==
    (run.op = "reanalyze" /\ run.done /\ run.returned # <<>>) =>
        run.returned[1].files_processed = Cardinality(run.listing \ run.skipped)

\* The step just taken processed a file in a live reconcile pass in which no
\* operation has failed
LiveReanalyzeStep ==
    /\ pc = "reanalyze"
    /\ ~dry_run
    /\ run'.clean
    /\ last_step'.kind \in {"nochange", "kept", "moved"}

\* C14 (as claimed): files_renamed grows by 1 for a file exactly when the name
\* chosen for it after conflict resolution differs from the name it had, and
\* stays as it was for a file that keeps its name.
C14_RenamedIffNameChanged ==
    [][LiveReanalyzeStep =>
          LET renamed == /\ last_step'.dst_name # ""
                         /\ last_step'.dst_name # last_step'.name
          IN  reanalysis_stats'.files_renamed =
                 reanalysis_stats.files_renamed + (IF renamed THEN 1 ELSE 0)]_vars

\* C15: in a reconcile pass, live or dry, a file whose recomputed category is
\* its folder's category and whose recomputed file name is the name it has
\* leaves the filesystem and the action log as they were and increments none
\* of files_renamed, files_moved and ai_improvements.
C15_UnchangedFileNoEffect ==
    [][(/\ pc = "reanalyze"
        /\ last_step'.category # ""
        /\ last_step'.category = CurrentCategory(last_step'.dir)
        /\ last_step'.new_name \o Suffix(last_step'.name) = last_step'.name)
       => /\ fs' = fs
          /\ actions_log' = actions_log
          /\ reanalysis_stats'.files_renamed = reanalysis_stats.files_renamed
          /\ reanalysis_stats'.files_moved = reanalysis_stats.files_moved
          /\ reanalysis_stats'.ai_improvements = reanalysis_stats.ai_improvements]_vars

\* C15 witness: the pass came across a code file that is in Organized_Code
\* under the name the Namer gives it
C15_Witness ==
    /\ pc = "reanalyze"
    /\ last_step.kind = "nochange"
    /\ last_step.dir = "Organized_Code"
    /\ last_step.name = "t.py"
    /\ reanalysis_stats.files_processed > 0

(***************************************************************************)
(* Driver: run_reanalysis over the target folders.  What                   *)
(* reanalyze_organized_files does on a root is an outcome record: kind     *)
(* "raised" (an exception reaches the driver), "none" (it returns None) or *)
(* "stats" (it returns the counters stats).                                *)
(***************************************************************************)
\* len(self.target_folders) as __init__ sets it (Desktop, Downloads, Documents)
TargetFolderCount == 3

RootStats ==
    {ZeroStats,
     [files_processed |-> 1, files_renamed |-> 0, files_moved |-> 1, ai_improvements |-> 0],
     [files_processed |-> 2, files_renamed |-> 1, files_moved |-> 0, ai_improvements |-> 1]}

RootOutcomes ==
    {[kind |-> "raised", stats |-> ZeroStats], [kind |-> "none", stats |-> ZeroStats]}
    \cup {[kind |-> "stats", stats |-> st] : st \in RootStats}

\* The outcomes of the roots, in the order of target_folders (main may have
\* filtered the folders down)
DriverCases ==
    UNION {[1..n -> RootOutcomes] : n \in 0..TargetFolderCount}

DriverInit ==
    /\ FunctionInit
    /\ ai_client = FALSE
    /\ fn_in \in {[roots |-> r] : r \in DriverCases}
    /\ fn_out = [total_stats |-> ZeroStats, attempted |-> 0, returned |-> <<>>]

\* for key in total_stats: total_stats[key] += folder_stats[key]
AddStats(total_stats, folder_stats) ==
    [key \in DOMAIN total_stats |-> total_stats[key] + folder_stats[key]]

\* Mutant of AccumulateStats: the root's counters replace the totals
AccumulateStats_Overwrite(total_stats, outcome) ==
    IF outcome.kind = "stats" THEN outcome.stats ELSE total_stats

\* The body of the driver's loop: total_stats after a root with this outcome
AccumulateStats(total_stats, outcome) ==
    IF outcome.kind = "stats" THEN AddStats(total_stats, outcome.stats) ELSE total_stats

\* One iteration of `for folder_name, folder_path in self.target_folders.items()`
ReanalyzeRoot ==
    /\ fn_out.returned = <<>>
    /\ fn_out.attempted < Len(fn_in.roots)
    /\ fn_out' = [fn_out EXCEPT
                     !.total_stats = AccumulateStats(@, fn_in.roots[fn_out.attempted + 1]),
                     !.attempted = @ + 1]
    /\ UNCHANGED <<passVars, fn_in>>

\* The loop is exhausted: run_reanalysis returns total_stats
ReturnTotals ==
    /\ fn_out.returned = <<>>
    /\ fn_out.attempted = Len(fn_in.roots)
    /\ fn_out' = [fn_out EXCEPT !.returned = <<fn_out.total_stats>>]
    /\ UNCHANGED <<passVars, fn_in>>

DriverNext == ReanalyzeRoot \/ ReturnTotals

DriverSpec == DriverInit /\ [][DriverNext]_vars

\* The sum of counter key over the first n roots that returned stats
RECURSIVE SumOfCounter(_, _, _)
SumOfCounter(roots, key, n) ==
    IF n = 0 THEN 0
    ELSE SumOfCounter(roots, key, n - 1)
         + (IF roots[n].kind = "stats" THEN roots[n].stats[key] ELSE 0)

\* C16: run_reanalysis returns only after it has attempted every root, and
\* each counter it returns is the sum of that counter over the roots whose
\* pass returned stats; a root whose pass raised or returned None adds nothing
\* and the roots after it are still attempted.
C16_DriverSumsAllRoots ==
    /\ fn_out.attempted <= Len(fn_in.roots)
    /\ \A key \in DOMAIN ZeroStats :
          fn_out.total_stats[key] = SumOfCounter(fn_in.roots, key, fn_out.attempted)
    /\ fn_out.returned # <<>> =>
          /\ fn_out.attempted = Len(fn_in.roots)
          /\ \A key \in DOMAIN ZeroStats :
                fn_out.returned[1][key] = SumOfCounter(fn_in.roots, key, Len(fn_in.roots))

\* C16 witness: the first root raised, the second returned None, the third
\* returned counters, and the driver returned those
C16_Witness ==
    /\ fn_out.returned # <<>>
    /\ Len(fn_in.roots) = 3
    /\ fn_in.roots[1].kind = "raised"
    /\ fn_in.roots[2].kind = "none"
    /\ fn_in.roots[3].kind = "stats"
    /\ fn_out.returned[1].files_processed = 2

\* C17: organize_files_in_folder on a root path that does not exist returns
\* without raising, and the call leaves the filesystem and the action log as
\* they were: no folder created, no file moved, no log line.
C17_MissingRootIsNoOp ==
    /\ []((run.op = "organize" /\ root_kind = "missing") =>
             (run.done /\ ~run.raised /\ ~run.changed /\ pc = "idle"))
    /\ [][(run'.op = "organize" /\ root_kind = "missing") =>
             (fs' = fs /\ actions_log' = actions_log)]_vars

\* C17 witness: the organize pass was called on a missing root and returned
C17_Witness ==
    /\ root_kind = "missing"
    /\ run.op = "organize"
    /\ run.done
    /\ passes > 0

\* C18: reanalyze_organized_files on a root that is missing, or is a folder
\* with no subfolder named Organized_*, does not raise, returns None or
\* counters with files_processed = 0, and leaves the filesystem and the
\* action log as they were (no listing fails in the pass).
C18_NothingToDoSentinel ==
    /\ []((run.op = "reanalyze" /\ run.bare /\ run.clean /\ root_kind # "file") =>
             /\ ~run.raised
             /\ ~run.changed
             /\ run.done =>
                   \/ run.returned = <<>>
                   \/ run.returned[1].files_processed = 0)
    /\ [][(run'.op = "reanalyze" /\ run'.bare /\ run'.clean /\ root_kind # "file") =>
             (fs' = fs /\ actions_log' = actions_log)]_vars

\* C18 witness: the reconcile pass returned None on a folder that holds a
\* file and no organized subfolder
C18_Witness ==
    /\ root_kind = "dir"
    /\ run.op = "reanalyze"
    /\ run.bare
    /\ run.done
    /\ run.returned = <<>>
    /\ \E x \in fs : x.dir = "" /\ x.name = "n.txt"

\* The suggestion the collaborator supplied in the call under test, sanitized
\* ("" when it was not called or the call failed)
SuppliedSuggestion ==
    IF fn_out.called /\ fn_in.outcome.kind = "reply"
    THEN ReSubNonWord(Strip(fn_in.outcome.text))
    ELSE ""

\* The suggestion is one the first rule takes
SuggestionUsed == SuppliedSuggestion # "" /\ Len(SuppliedSuggestion) > 3

\* The alphabetic words of length >= 4 in the first 200 characters of the
\* content preview
PreviewWords == FindWords(SubSeq(fn_in.content, 1, Min(200, Len(fn_in.content))))

\* The document-words rule applies to the call under test
DocumentRuleApplies ==
    /\ fn_in.content # ""
    /\ Lower(Suffix(fn_in.name)) \in {".txt", ".md", ".pdf", ".doc", ".docx"}
    /\ Len(PreviewWords) >= 2

\* C19: generate_smart_filename returns what the first applicable rule gives,
\* in the order AI suggestion (non-empty and longer than 3 characters once
\* sanitized), photo date, document words, code stem, default; a usable
\* suggestion is returned whatever the metadata, extension and content are.
C19_NamerPriority ==
    fn_out # NoResult =>
        IF SuggestionUsed
        THEN fn_out.new_name = SuppliedSuggestion
        ELSE IF "photo_date" \in DOMAIN fn_in.metadata
        THEN /\ Len(fn_out.new_name) >= 6
             /\ SubSeq(fn_out.new_name, 1, 6) = "photo_"
        ELSE IF DocumentRuleApplies
        THEN fn_out.new_name =
                Lower(JoinUnderscore(SubSeq(PreviewWords, 1, Min(3, Len(PreviewWords)))))
        ELSE fn_out.new_name = ReSubNonWord(Stem(fn_in.name))

\* C19 witness: a suggestion was returned for an image that carries a photo
\* date and a content preview with words
C19_Witness ==
    /\ fn_out # NoResult
    /\ fn_out.called
    /\ "photo_date" \in DOMAIN fn_in.metadata
    /\ fn_in.content = "some text here"
    /\ fn_out.new_name = "report_v2"

\* The photo date with every ':' removed and every ' ' replaced by '_'
RECURSIVE DateText(_)
DateText(d) ==
    IF d = "" THEN ""
    ELSE (IF Head(d) = ":" THEN "" ELSE IF Head(d) = " " THEN "_" ELSE Head(d))
         \o DateText(Tail(d))

\* C20: when no AI suggestion is used and the metadata holds a photo date,
\* generate_smart_filename returns 'photo_' followed by the date with every
\* ':' removed and every ' ' replaced by '_', whatever the extension and the
\* content are; "2024:07:15 14:30:22" gives photo_20240715_143022.
C20_PhotoDateName ==
    (fn_out # NoResult /\ ~SuggestionUsed /\ "photo_date" \in DOMAIN fn_in.metadata) =>
        /\ fn_out.new_name = "photo_" \o DateText(fn_in.metadata.photo_date)
        /\ fn_in.metadata.photo_date = "2024:07:15 14:30:22"
              => fn_out.new_name = "photo_20240715_143022"

\* C20 witness: a photo with that date got its name with no client
C20_Witness ==
    /\ fn_out # NoResult
    /\ ~fn_out.called
    /\ fn_in.name = "p.jpg"
    /\ fn_in.content = "some text here"
    /\ fn_out.new_name = "photo_20240715_143022"


\* The positions of str at which a word begins: a letter that follows no word
\* character
WordStarts(str) ==
    {i \in 1..Len(str) :
        /\ IsAsciiLetter(CharAt(str, i))
        /\ i = 1 \/ ~IsWordChar(CharAt(str, i - 1))}

\* The last position of the run of letters of str that begins at i
LettersEnd(str, i) ==
    CHOOSE j \in i..Len(str) :
        /\ \A k \in i..j : IsAsciiLetter(CharAt(str, k))
        /\ j = Len(str) \/ ~IsAsciiLetter(CharAt(str, j + 1))

\* The positions of str at which an alphabetic word of length >= 4 begins: the
\* run of letters is at least 4 long and no word character follows it
AlphabeticWordStarts(str) ==
    {i \in WordStarts(str) :
        /\ LettersEnd(str, i) - i + 1 >= 4
        /\ \/ LettersEnd(str, i) = Len(str)
           \/ ~IsWordChar(CharAt(str, LettersEnd(str, i) + 1))}

\* The words of str that begin at the positions starts, in order of appearance
RECURSIVE WordsInOrder(_, _)
WordsInOrder(str, starts) ==
    IF starts = {} THEN <<>>
    ELSE LET i == CHOOSE x \in starts : \A y \in starts : x <= y
         IN  <<SubSeq(str, i, LettersEnd(str, i))>> \o WordsInOrder(str, starts \ {i})

\* The alphabetic words of length >= 4 of the first 200 characters of the
\* content preview of the call under test, in order of appearance
AlphabeticWords ==
    WordsInOrder(SubSeq(fn_in.content, 1, Min(200, Len(fn_in.content))),
                 AlphabeticWordStarts(SubSeq(fn_in.content, 1, Min(200, Len(fn_in.content)))))

\* The first n elements of words, joined by '_'
RECURSIVE FirstJoined(_, _)
FirstJoined(words, n) ==
    IF n = 0 \/ words = <<>> THEN ""
    ELSE IF n = 1 \/ Len(words) = 1 THEN Head(words)
    ELSE Head(words) \o "_" \o FirstJoined(Tail(words), n - 1)

ResolverFolder == "Organized_Documents"

ResolverNames == {"report.pdf", "report_1.pdf", "report_2.pdf", "old.pdf"}

\* The destination folders: each name absent, a regular file or a dangling link
ResolverFolders ==
    {{Entry(ResolverFolder, n, kinds[n], 1) : n \in {x \in ResolverNames : kinds[x] # "absent"}} :
        kinds \in [ResolverNames -> {"absent", "file", "dangling"}]}

\* organize_files_in_folder resolves for a file of the root; reanalyze_organized_files
\* for a file of another folder (own = "") or of the destination folder
ResolverCases ==
    {[pass |-> p, entries |-> f, new_name |-> "report", suffix |-> ".pdf", own |-> ""] :
        p \in {"organize", "reanalyze"}, f \in ResolverFolders}
    \cup UNION {{[pass |-> "reanalyze", entries |-> f, new_name |-> "report",
                  suffix |-> ".pdf", own |-> e.name] : e \in {x \in f : IsFile(x)}} :
                f \in ResolverFolders}

\* The state at the loop's first test: counter = 1 and the unsuffixed name
ResolverInit ==
    /\ FunctionInit
    /\ ai_client = FALSE
    /\ fn_in \in ResolverCases
    /\ fn_out = [new_filename |-> fn_in.new_name \o fn_in.suffix, counter |-> 1,
                 done |-> FALSE]

\* Mutant of NextCounter: the counter is not incremented
NextCounter_Stuck(counter) == counter

\* counter += 1
NextCounter(counter) == counter + 1

\* The condition of the while loop: dest_path.exists(), and in
\* reanalyze_organized_files also new_dest_path != file_path
LoopCondition(pass, f, new_filename, own) ==
    /\ PathExists(f, ResolverFolder, new_filename)
    /\ pass = "reanalyze" => new_filename # own

\* One test of the loop condition: the body runs, or the loop is left
ConflictLoopStep ==
    /\ ~fn_out.done
    /\ fn_out' =
          IF LoopCondition(fn_in.pass, fn_in.entries, fn_out.new_filename, fn_in.own)
          THEN [new_filename |-> Candidate(fn_in.new_name, fn_in.suffix, fn_out.counter),
                counter |-> NextCounter(fn_out.counter),
                done |-> FALSE]
          ELSE [fn_out EXCEPT !.done = TRUE]
    /\ UNCHANGED <<passVars, fn_in>>

ResolverNext == ConflictLoopStep

ResolverSpec == ResolverInit /\ [][ResolverNext]_vars

\* The n-th name of the sequence base+ext, base_1+ext, base_2+ext, ...
SequenceName(n) ==
    IF n = 0 THEN fn_in.new_name \o fn_in.suffix
    ELSE fn_in.new_name \o "_" \o SubSeq("123456789", n, n) \o fn_in.suffix

\* The n-th name is free: no path of that name exists in the destination
\* folder (a dangling link is no existing path), the file's own path apart
NameFree(n) ==
    \/ \A e \in fn_in.entries : e.name = SequenceName(n) => e.kind = "dangling"
    \/ fn_in.own # "" /\ SequenceName(n) = fn_in.own

\* C22: the conflict loop leaves with the first free name of the sequence
\* base+ext, base_1+ext, base_2+ext, ...: the unsuffixed name when it is free,
\* otherwise the suffix _n with the smallest n >= 1 that is free; with
\* report.pdf alone in the folder, a file resolving to report and .pdf
\* becomes report_1.pdf.
C22_FirstFreeCandidate ==
    fn_out.done =>
        /\ \E n \in 0..Cardinality(fn_in.entries) :
              /\ fn_out.new_filename = SequenceName(n)
              /\ NameFree(n)
              /\ \A m \in 0..(n - 1) : ~NameFree(m)
        /\ (fn_in.own = "" /\ fn_in.entries = {Entry(ResolverFolder, "report.pdf", "file", 1)})
              => fn_out.new_filename = "report_1.pdf"

\* C22 witness: report.pdf and report_1.pdf are taken, the file gets report_2.pdf
C22_Witness ==
    /\ fn_out.done
    /\ fn_in.pass = "organize"
    /\ PathExists(fn_in.entries, ResolverFolder, "report.pdf")
    /\ PathExists(fn_in.entries, ResolverFolder, "report_1.pdf")
    /\ fn_out.new_filename = "report_2.pdf"
    /\ fn_out.counter = 3

\* The category the table gives an extension, in the words of the claim
CategoryForExtension(ext) ==
    IF TableCategories(ext) = {} THEN "Other"
    ELSE CHOOSE c \in TableCategories(ext) : TRUE

\* A direct entry of the root the organize pass has to place: a regular file
\* that is neither skipped nor named Organized_...
ToBePlaced(e) ==
    /\ e.dir = ""
    /\ e.kind = "file"
    /\ ~NeverOrganized(e)
    /\ ~(Len(e.name) >= 10 /\ SubSeq(e.name, 1, 10) = "Organized_")

\* C23: when organize_files_in_folder has returned with no per-file error, no
\* direct regular file that is neither skipped nor named Organized_... is left
\* in the root; each such file, when its iteration ends, has left the root and
\* lies, as the same file, in the directory Organized_<C> of the root, C being
\* the category of its lowercased extension, under a name that has no path
\* separator and keeps the extension; and the pass removes nothing from the
\* organized folders.
C23_OrganizedUnderCategory ==
    /\ []((run.op = "organize" /\ run.done /\ ~run.raised /\ run.errored = {})
            => ~\E e \in fs : ToBePlaced(e))
    /\ [][(pc = "organize" /\ last_step'.kind = "moved") =>
            /\ ~\E x \in fs' : x.dir = "" /\ x.name = last_step'.name
            /\ \E x \in fs :
                  /\ ToBePlaced(x)
                  /\ x.name = last_step'.name
                  /\ [dir |-> last_step'.dst_dir, name |-> last_step'.dst_name,
                      kind |-> x.kind, body |-> x.body] \in fs'
            /\ last_step'.dst_dir =
                  "Organized_" \o CategoryForExtension(Lower(Suffix(last_step'.name)))
            /\ \E d \in fs' : d.dir = "" /\ d.name = last_step'.dst_dir /\ d.kind = "dir"
            /\ ~Contains(last_step'.dst_name, "/")
            /\ Suffix(last_step'.dst_name) = Suffix(last_step'.name)]_vars
    /\ [][pc = "organize" =>
            \A e \in fs : (e.dir # "" /\ e.kind # "dangling") => e \in fs']_vars

\* C23 witness: a pass with no error has returned, and the file a b.py of the
\* root lies in Organized_Code
C23_Witness ==
    /\ run.op = "organize"
    /\ run.done
    /\ ~run.raised
    /\ run.errored = {}
    /\ PathStr("", "a b.py") \in run.attempted
    /\ \E e \in fs : e.dir = "Organized_Code" /\ e.name = "a_b.py" /\ e.kind = "file"
    /\ ~\E e \in fs : e.dir = "" /\ e.name = "a b.py"

\* C24: through every step of every organize and reconcile pass the action log
\* only grows at its end: its length does not decrease and every entry it
\* held is still there, unchanged and at the same place.
C24_LogAppendOnly ==
    [][/\ Len(actions_log') >= Len(actions_log)
       /\ \A k \in 1..Len(actions_log) : actions_log'[k] = actions_log[k]]_vars

\* C24 witness: the log holds an entry of an organize pass followed by an
\* entry of a later reconcile pass
C24_Witness ==
    /\ passes = 2
    /\ Len(actions_log) = 2
    /\ "action" \notin DOMAIN actions_log[1]
    /\ "action" \in DOMAIN actions_log[2]
    /\ actions_log[2].action = "reanalysis"

\* The change-kind list holds a tag of the kind that begins with prefix
HasTag(change_type, prefix) ==
    \E k \in 1..Len(change_type) :
        /\ Len(change_type[k]) >= Len(prefix)
        /\ SubSeq(change_type[k], 1, Len(prefix)) = prefix

\* C25 (as claimed): in a live reconcile pass, an iteration that ends with no
\* failure on a file to be changed performs the move unless the destination
\* chosen by conflict resolution is the file's own path, and then appends one
\* log entry for that move whose change-kind list holds the category tag
\* exactly when the folder changed and the rename tag exactly when the name
\* changed.
C25_ChangeKindsLogged ==
    [][(pc = "reanalyze" /\ ~dry_run /\ last_step'.kind \in {"moved", "kept"}) =>
          IF last_step'.dst_dir = last_step'.dir /\ last_step'.dst_name = last_step'.name
          THEN /\ fs' = fs
               /\ actions_log' = actions_log
          ELSE /\ ~\E x \in fs' : x.dir = last_step'.dir /\ x.name = last_step'.name
               /\ \E x \in fs' : x.dir = last_step'.dst_dir /\ x.name = last_step'.dst_name
               /\ Len(actions_log') = Len(actions_log) + 1
               /\ actions_log'[Len(actions_log')].original_path =
                     PathStr(last_step'.dir, last_step'.name)
               /\ actions_log'[Len(actions_log')].new_path =
                     PathStr(last_step'.dst_dir, last_step'.dst_name)
               /\ HasTag(actions_log'[Len(actions_log')].change_type, "category: ")
                     <=> last_step'.dst_dir # last_step'.dir
               /\ HasTag(actions_log'[Len(actions_log')].change_type, "name: ")
                     <=> last_step'.dst_name # last_step'.name]_vars

\* C26 (as claimed): after a live reconcile pass that returned with no
\* failure and no collaborator, the next live reconcile pass, as long as
\* nothing fails in it, moves and renames nothing and appends nothing to the
\* log, in whatever order it takes the folders and the files.
C26_SecondPassFixedPoint ==
    [][(/\ pc = "reanalyze"
        /\ ~dry_run
        /\ run.no_ai
        /\ CleanReanalysis(prev_run, FALSE)
        /\ prev_run.no_ai
        /\ run'.clean)
       => (fs' = fs /\ actions_log' = actions_log)]_vars

\* The loop's condition is tested again as long as the loop has not been left
ResolverFairSpec == ResolverSpec /\ WF_vars(ConflictLoopStep)

\* C27: in both passes the conflict loop is left after finitely many
\* increments of the counter, at most one for each entry of the destination
\* folder, so the file reaches the move step.
C27_LoopTerminates ==
    /\ [](fn_out.counter <= Cardinality(fn_in.entries) + 1)
    /\ <>fn_out.done

\* C27 witness: the reconcile pass left the loop on the file's own path after
\* two increments
C27_Witness ==
    /\ fn_out.done
    /\ fn_in.pass = "reanalyze"
    /\ fn_in.own = "report_2.pdf"
    /\ fn_out.new_filename = "report_2.pdf"
    /\ fn_out.counter = 3

\* The number of files under the root that hold the content Bodies[b]
\* (regular files and links to files; a dangling link holds nothing)
FilesHolding(f, b) == Cardinality({e \in f : e.kind \in {"file", "symlink"} /\ e.body = b})

C29_AnalyzedAtMostOnce ==
    (run.op = "reanalyze" /\ run.clean) =>
        /\ pc = "reanalyze" => reanalysis_stats.files_processed <= run.present
        /\ run.returned # <<>> => run.returned[1].files_processed <= run.present

\* The entries of f at the path a log line gives
EntriesAtPath(f, path) == {x \in f : PathStr(x.dir, x.name) = path}

\* C30: a step of a pass that appends to the action log appends one line, in
\* an organize pass or a live reconcile pass, and in that same step the file of that iteration went from
\* the line's original_path to the line's new_path (the source is gone, the
\* destination holds what the source held, every other entry is where it
\* was); a step after which the iterated file is still at its source path,
\* a failed move included, appends nothing.
C30_LogAfterMove ==
    [][/\ actions_log' # actions_log =>
            /\ pc \in {"organize", "reanalyze"}
            /\ pc = "reanalyze" => ~dry_run
            /\ Len(actions_log') = Len(actions_log) + 1
            /\ actions_log'[Len(actions_log')].original_path
                  = PathStr(last_step'.dir, last_step'.name)
            /\ actions_log'[Len(actions_log')].original_path
                  # actions_log'[Len(actions_log')].new_path
            /\ EntriesAtPath(fs', actions_log'[Len(actions_log')].original_path) = {}
            /\ \E s \in EntriesAtPath(fs, actions_log'[Len(actions_log')].original_path) :
                 /\ IsFile(s)
                 /\ \E d \in EntriesAtPath(fs', actions_log'[Len(actions_log')].new_path) :
                      d.kind = s.kind /\ d.body = s.body
                 /\ \A x \in fs \ {s} :
                      x \in fs' \/ x \in EntriesAtPath(fs, actions_log'[Len(actions_log')].new_path)
       /\ (/\ pc \in {"organize", "reanalyze"}
           /\ last_step' # last_step
           /\ EntriesAt(fs', last_step'.dir, last_step'.name) # {})
              => actions_log' = actions_log]_vars

\* C30 witness: in one live pass a file was moved and logged, and then the
\* move of another file failed: that file is where it was and the log still
\* has the one line, whose new_path holds a file
C30_Witness ==
    /\ pc \in {"organize", "reanalyze"}
    /\ last_step.kind = "error"
    /\ ~last_step.moved
    /\ last_step.dst_name # ""
    /\ EntriesAt(fs, last_step.dir, last_step.name) # {}
    /\ Len(actions_log) = 1
    /\ actions_log[1].original_path # PathStr(last_step.dir, last_step.name)
    /\ EntriesAtPath(fs, actions_log[1].original_path) = {}
    /\ \E d \in EntriesAtPath(fs, actions_log[1].new_path) : IsFile(d)
=============================================================================
